---- MODULE Spec2Model ----
(***************************************************************************)
(* The DCGAN training script src/train.py as a state machine.              *)
(*                                                                         *)
(* The script is one sequential thread of control: start-up (dataset       *)
(* selection, network construction, optimizers), then the epoch loop, the  *)
(* batch loop inside it, and the per-batch Discriminator / Generator       *)
(* updates, periodic reporting and the end-of-epoch checkpoints.           *)
(*                                                                         *)
(* Numeric tensors are abstracted to what the control flow and the         *)
(* autograd bookkeeping depend on: a tensor is its leading dimension (the  *)
(* image count) and whether its autograd graph reaches the Generator; a    *)
(* gradient buffer is the bag of loss contributions accumulated in it; a   *)
(* parameter state is the number of optimizer steps applied to it and the  *)
(* gradient bag the latest step applied.                                   *)
(***************************************************************************)
EXTENDS Integers, Sequences, FiniteSets, Bags, TLC

(***************************************************************************)
(* Hyperparameters and literals of the script.                             *)
(***************************************************************************)
BATCH_SIZE == 128
ConfiguredImageChannel == 3
MnistImageChannel == 1
REAL_LABEL == 1
FAKE_LABEL == 0
ReportInterval == 100

(***************************************************************************)
(* Bounds of the model.  EPOCH_NUM is drawn from 0..MaxEpochNum; the       *)
(* dataset holds up to MaxFullBatches full batches plus a remainder.       *)
(***************************************************************************)
MaxEpochNum == 2
MaxFullBatches == 100

VARIABLES
    pc,             \* position of the single thread of control
    pathExists,     \* IN_PATH.exists() at start-up
    numImages,      \* len(dataset) of the dataset that gets loaded
    EPOCH_NUM,      \* configured number of epochs
    IMAGE_CHANNEL,  \* channel count (reassigned by the fallback branch)
    dataset,        \* "none", "ImageFolder" or "MNIST"
    netG, netD,     \* the two networks: nc, steps, applied, grad
    optimizers,     \* which parameter set optimizerD / optimizerG hold
    viz_noise,      \* leading dimension of the fixed visualization noise
    epochIt,        \* how many values range(EPOCH_NUM) has yielded
    epoch,          \* loop variable of the outer loop
    yielded,        \* how many batches this epoch's iterator has yielded
    i,              \* loop variable of the inner loop
    x_real,         \* leading dimension of the current real batch
    real_label, fake_label,   \* label tensors: [n, value]
    z_noise,        \* leading dimension of the latent batch
    x_fake,         \* fake images: [n, graphG]
    files,          \* what this run has written under OUT_PATH
    log             \* what this run has printed (fallback and report lines)

vars == << pc, pathExists, numImages, EPOCH_NUM, IMAGE_CHANNEL, dataset,
           netG, netD, optimizers, viz_noise, epochIt, epoch, yielded, i,
           x_real, real_label, fake_label, z_noise, x_fake, files, log >>

(***************************************************************************)
(* Pure helpers.                                                           *)
(***************************************************************************)
Min(a, b) == IF a <= b THEN a ELSE b

\* Dataset sizes the environment may supply: b full batches plus r images.
DatasetSizes ==
    { b * BATCH_SIZE + r : b \in {0, 1, MaxFullBatches},
                           r \in {0, 1, BATCH_SIZE - 1} }

\* len(dataloader): DataLoader keeps the last, possibly short, batch.
NumBatches == (numImages + BATCH_SIZE - 1) \div BATCH_SIZE

\* Image count of the k-th batch (0-based) the DataLoader yields.
BatchLen(k) == Min(BATCH_SIZE, numImages - k * BATCH_SIZE)

\* A freshly constructed network with nc image channels.
NewNet(nc) == [nc |-> nc, steps |-> 0, applied |-> EmptyBag, grad |-> EmptyBag]

NoNet == NewNet(0)

\* One loss contribution to a gradient buffer.
GradOf(loss, e, k) == [loss |-> loss, epoch |-> e, i |-> k]

\* net.zero_grad()
ZeroGrad(net) == [net EXCEPT !.grad = EmptyBag]

\* Faulty variant: backward overwrites the buffer instead of adding to it
BackwardInto_Overwrite(net, g) == [net EXCEPT !.grad = SetToBag({g})]

\* what loss.backward() does to the .grad of a network in the loss's graph
BackwardInto(net, g) == [net EXCEPT !.grad = @ (+) SetToBag({g})]

\* optimizer.step() on the parameters of net
OptimStep(net) == [net EXCEPT !.steps = @ + 1, !.applied = net.grad]

\* Faulty variant: the fake images are passed on with their graph attached
Detach_Attached(t) == t

\* tensor.detach(): same data, cut from the graph that produced it
Detach(t) == [t EXCEPT !.graphG = FALSE]

\* torch.full((n,), value)
TorchFull(n, value) == [n |-> n, value |-> value]

\* net.state_dict()
StateDict(net) == [steps |-> net.steps, applied |-> net.applied]

FileName(kind, e) == << kind, e >>

RealSamplesFile == << "real_samples" >>

\* writing a file creates it or overwrites it
WriteFile(fs, name, content) ==
    [f \in (DOMAIN fs) \cup {name} |->
        IF f = name
        THEN [writes  |-> (IF name \in DOMAIN fs THEN fs[name].writes ELSE 0) + 1,
              content |-> content]
        ELSE fs[f]]

NoFiles == [f \in {} |-> 0]

LogLine(msg, e, k) == [msg |-> msg, epoch |-> e, i |-> k]

(***************************************************************************)
(* Initial state: the hyperparameter block has been evaluated.  Whether    *)
(* IN_PATH exists and how many images the selected dataset holds are       *)
(* inputs from the environment (the size is taken from DatasetSizes for    *)
(* either dataset); EPOCH_NUM, 500 in the script, ranges over the bounded  *)
(* set 0..MaxEpochNum.  Loss values are not part of the state: no          *)
(* statement reads them except the report's print.                         *)
(***************************************************************************)
Init ==
    /\ pc = "load_dataset"
    /\ pathExists \in BOOLEAN
    /\ numImages \in DatasetSizes
    /\ EPOCH_NUM \in 0..MaxEpochNum
    /\ IMAGE_CHANNEL = ConfiguredImageChannel
    /\ dataset = "none"
    /\ netG = NoNet
    /\ netD = NoNet
    /\ optimizers = [D |-> "none", G |-> "none"]
    /\ viz_noise = 0
    /\ epochIt = 0
    /\ epoch = 0
    /\ yielded = 0
    /\ i = 0
    /\ x_real = 0
    /\ real_label = TorchFull(0, REAL_LABEL)
    /\ fake_label = TorchFull(0, FAKE_LABEL)
    /\ z_noise = 0
    /\ x_fake = [n |-> 0, graphG |-> FALSE]
    /\ files = NoFiles
    /\ log = << >>

(***************************************************************************)
(* Start-up.                                                               *)
(***************************************************************************)
\* Faulty variant: the fallback branch leaves the channel count as configured
LoadDataset_KeepChannel ==
    /\ pc = "load_dataset"
    /\ IF pathExists
       THEN /\ dataset' = "ImageFolder"
            /\ UNCHANGED << IMAGE_CHANNEL, log >>
       ELSE /\ log' = Append(log, LogLine("no data available, using MNIST", -1, -1))
            /\ UNCHANGED IMAGE_CHANNEL
            /\ dataset' = "MNIST"
    /\ pc' = "assert_dataset"
    /\ UNCHANGED << pathExists, numImages, EPOCH_NUM, netG, netD, optimizers,
                    viz_noise, epochIt, epoch, yielded, i, x_real, real_label,
                    fake_label, z_noise, x_fake, files >>

\* lines 72-92: the primary dataset if IN_PATH exists, else the MNIST fallback
LoadDataset ==
    /\ pc = "load_dataset"
    /\ IF pathExists
       THEN /\ dataset' = "ImageFolder"
            /\ UNCHANGED << IMAGE_CHANNEL, log >>
       ELSE /\ log' = Append(log, LogLine("no data available, using MNIST", -1, -1))
            /\ IMAGE_CHANNEL' = MnistImageChannel
            /\ dataset' = "MNIST"
    /\ pc' = "assert_dataset"
    /\ UNCHANGED << pathExists, numImages, EPOCH_NUM, netG, netD, optimizers,
                    viz_noise, epochIt, epoch, yielded, i, x_real, real_label,
                    fake_label, z_noise, x_fake, files >>

\* lines 94-98: `assert dataset` raises when the dataset is empty
AssertDataset ==
    /\ pc = "assert_dataset"
    /\ pc' = IF numImages = 0 THEN "crashed" ELSE "construct_G"
    /\ UNCHANGED << pathExists, numImages, EPOCH_NUM, IMAGE_CHANNEL, dataset,
                    netG, netD, optimizers, viz_noise, epochIt, epoch, yielded,
                    i, x_real, real_label, fake_label, z_noise, x_fake, files,
                    log >>

\* lines 104-106
ConstructG ==
    /\ pc = "construct_G"
    /\ netG' = NewNet(IMAGE_CHANNEL)
    /\ pc' = "construct_D"
    /\ UNCHANGED << pathExists, numImages, EPOCH_NUM, IMAGE_CHANNEL, dataset,
                    netD, optimizers, viz_noise, epochIt, epoch, yielded, i,
                    x_real, real_label, fake_label, z_noise, x_fake, files,
                    log >>

\* lines 109-111
ConstructD ==
    /\ pc = "construct_D"
    /\ netD' = NewNet(IMAGE_CHANNEL)
    /\ pc' = "setup"
    /\ UNCHANGED << pathExists, numImages, EPOCH_NUM, IMAGE_CHANNEL, dataset,
                    netG, optimizers, viz_noise, epochIt, epoch, yielded, i,
                    x_real, real_label, fake_label, z_noise, x_fake, files,
                    log >>

\* Faulty variant: optimizerG built over the Discriminator's parameters
MakeOptimizers_BothOnD == [D |-> "netD", G |-> "netD"]

\* lines 120-121: each optimizer is given one network's parameters
MakeOptimizers == [D |-> "netD", G |-> "netG"]

\* lines 114-121: loss function, visualization noise, optimizers
Setup ==
    /\ pc = "setup"
    /\ viz_noise' = BATCH_SIZE
    /\ optimizers' = MakeOptimizers
    /\ pc' = "epoch_loop"
    /\ UNCHANGED << pathExists, numImages, EPOCH_NUM, IMAGE_CHANNEL, dataset,
                    netG, netD, epochIt, epoch, yielded, i, x_real, real_label,
                    fake_label, z_noise, x_fake, files, log >>

(***************************************************************************)
(* The loops.                                                              *)
(***************************************************************************)
\* Faulty variant: the loop is left after the first epoch
EpochLoop_EarlyStop ==
    /\ pc = "epoch_loop"
    /\ IF epochIt < EPOCH_NUM /\ epochIt < 1
       THEN /\ epoch' = epochIt
            /\ epochIt' = epochIt + 1
            /\ yielded' = 0
            /\ pc' = "batch_loop"
       ELSE /\ pc' = "done"
            /\ UNCHANGED << epoch, epochIt, yielded >>
    /\ UNCHANGED << pathExists, numImages, EPOCH_NUM, IMAGE_CHANNEL, dataset,
                    netG, netD, optimizers, viz_noise, i, x_real, real_label,
                    fake_label, z_noise, x_fake, files, log >>

\* line 123: for epoch in range(EPOCH_NUM)
EpochLoop ==
    /\ pc = "epoch_loop"
    /\ IF epochIt < EPOCH_NUM
       THEN /\ epoch' = epochIt
            /\ epochIt' = epochIt + 1
            /\ yielded' = 0
            /\ pc' = "batch_loop"
       ELSE /\ pc' = "done"
            /\ UNCHANGED << epoch, epochIt, yielded >>
    /\ UNCHANGED << pathExists, numImages, EPOCH_NUM, IMAGE_CHANNEL, dataset,
                    netG, netD, optimizers, viz_noise, i, x_real, real_label,
                    fake_label, z_noise, x_fake, files, log >>

\* lines 124-125: for i, data in enumerate(dataloader); x_real = data[0]
BatchLoop ==
    /\ pc = "batch_loop"
    /\ IF yielded < NumBatches
       THEN /\ i' = yielded
            /\ yielded' = yielded + 1
            /\ x_real' = BatchLen(yielded)
            /\ pc' = "labels"
       ELSE /\ pc' = "save_G"
            /\ UNCHANGED << i, yielded, x_real >>
    /\ UNCHANGED << pathExists, numImages, EPOCH_NUM, IMAGE_CHANNEL, dataset,
                    netG, netD, optimizers, viz_noise, epochIt, epoch,
                    real_label, fake_label, z_noise, x_fake, files, log >>

\* Faulty variant: labels sized by the configured batch size
CreateLabels_ConfiguredSize ==
    /\ pc = "labels"
    /\ real_label' = TorchFull(BATCH_SIZE, REAL_LABEL)
    /\ fake_label' = TorchFull(BATCH_SIZE, FAKE_LABEL)
    /\ pc' = "D_zero_grad"
    /\ UNCHANGED << pathExists, numImages, EPOCH_NUM, IMAGE_CHANNEL, dataset,
                    netG, netD, optimizers, viz_noise, epochIt, epoch, yielded,
                    i, x_real, z_noise, x_fake, files, log >>

\* lines 126-127
CreateLabels ==
    /\ pc = "labels"
    /\ real_label' = TorchFull(x_real, REAL_LABEL)
    /\ fake_label' = TorchFull(x_real, FAKE_LABEL)
    /\ pc' = "D_zero_grad"
    /\ UNCHANGED << pathExists, numImages, EPOCH_NUM, IMAGE_CHANNEL, dataset,
                    netG, netD, optimizers, viz_noise, epochIt, epoch, yielded,
                    i, x_real, z_noise, x_fake, files, log >>

(***************************************************************************)
(* Discriminator update.                                                   *)
(***************************************************************************)
\* line 130
DZeroGrad ==
    /\ pc = "D_zero_grad"
    /\ netD' = ZeroGrad(netD)
    /\ pc' = "D_real"
    /\ UNCHANGED << pathExists, numImages, EPOCH_NUM, IMAGE_CHANNEL, dataset,
                    netG, optimizers, viz_noise, epochIt, epoch, yielded, i,
                    x_real, real_label, fake_label, z_noise, x_fake, files,
                    log >>

\* Faulty variant: the Discriminator is updated right after the real-loss backward
DRealStep_WithUpdate ==
    /\ pc = "D_real"
    /\ netD' = OptimStep(BackwardInto(netD, GradOf("loss_D_real", epoch, i)))
    /\ pc' = "z_noise"
    /\ UNCHANGED << pathExists, numImages, EPOCH_NUM, IMAGE_CHANNEL, dataset,
                    netG, optimizers, viz_noise, epochIt, epoch, yielded, i,
                    x_real, real_label, fake_label, z_noise, x_fake, files,
                    log >>

\* lines 131-133: netD(x_real), loss against real_label, backward.  x_real is
\* data, so the graph of loss_D_real holds the Discriminator only.
DRealStep ==
    /\ pc = "D_real"
    /\ netD' = BackwardInto(netD, GradOf("loss_D_real", epoch, i))
    /\ pc' = "z_noise"
    /\ UNCHANGED << pathExists, numImages, EPOCH_NUM, IMAGE_CHANNEL, dataset,
                    netG, optimizers, viz_noise, epochIt, epoch, yielded, i,
                    x_real, real_label, fake_label, z_noise, x_fake, files,
                    log >>

\* line 136
SampleNoise ==
    /\ pc = "z_noise"
    /\ z_noise' = x_real
    /\ pc' = "G_forward"
    /\ UNCHANGED << pathExists, numImages, EPOCH_NUM, IMAGE_CHANNEL, dataset,
                    netG, netD, optimizers, viz_noise, epochIt, epoch, yielded,
                    i, x_real, real_label, fake_label, x_fake, files, log >>

\* line 137: x_fake = netG(z_noise); its graph reaches the Generator
GForward ==
    /\ pc = "G_forward"
    /\ x_fake' = [n |-> z_noise, graphG |-> TRUE]
    /\ pc' = "D_fake"
    /\ UNCHANGED << pathExists, numImages, EPOCH_NUM, IMAGE_CHANNEL, dataset,
                    netG, netD, optimizers, viz_noise, epochIt, epoch, yielded,
                    i, x_real, real_label, fake_label, z_noise, files, log >>

\* backward of a loss computed as criterion(netD(input), label): the gradient
\* lands in the Discriminator, and in the Generator iff input's graph reaches it
BackwardThroughD(input, g) ==
    /\ netD' = BackwardInto(netD, g)
    /\ netG' = IF input.graphG THEN BackwardInto(netG, g) ELSE netG

\* lines 138-140: netD(x_fake.detach()), loss against fake_label, backward
DFakeStep ==
    /\ pc = "D_fake"
    /\ BackwardThroughD(Detach(x_fake), GradOf("loss_D_fake", epoch, i))
    /\ pc' = "optD_step"
    /\ UNCHANGED << pathExists, numImages, EPOCH_NUM, IMAGE_CHANNEL, dataset,
                    optimizers, viz_noise, epochIt, epoch, yielded, i, x_real,
                    real_label, fake_label, z_noise, x_fake, files, log >>

\* optimizer.step() of the optimizer holding the parameters named by `which`
StepOptimizer(which) ==
    /\ netD' = IF which = "netD" THEN OptimStep(netD) ELSE netD
    /\ netG' = IF which = "netG" THEN OptimStep(netG) ELSE netG

\* line 141
OptimizerDStep ==
    /\ pc = "optD_step"
    /\ StepOptimizer(optimizers.D)
    /\ pc' = "G_zero_grad"
    /\ UNCHANGED << pathExists, numImages, EPOCH_NUM, IMAGE_CHANNEL, dataset,
                    optimizers, viz_noise, epochIt, epoch, yielded, i, x_real,
                    real_label, fake_label, z_noise, x_fake, files, log >>

(***************************************************************************)
(* Generator update.                                                       *)
(***************************************************************************)
\* line 144
GZeroGrad ==
    /\ pc = "G_zero_grad"
    /\ netG' = ZeroGrad(netG)
    /\ pc' = "G_step"
    /\ UNCHANGED << pathExists, numImages, EPOCH_NUM, IMAGE_CHANNEL, dataset,
                    netD, optimizers, viz_noise, epochIt, epoch, yielded, i,
                    x_real, real_label, fake_label, z_noise, x_fake, files,
                    log >>

\* lines 145-147: netD(x_fake), loss against real_label, backward
GStep ==
    /\ pc = "G_step"
    /\ BackwardThroughD(x_fake, GradOf("loss_G", epoch, i))
    /\ pc' = "optG_step"
    /\ UNCHANGED << pathExists, numImages, EPOCH_NUM, IMAGE_CHANNEL, dataset,
                    optimizers, viz_noise, epochIt, epoch, yielded, i, x_real,
                    real_label, fake_label, z_noise, x_fake, files, log >>

\* line 148
OptimizerGStep ==
    /\ pc = "optG_step"
    /\ StepOptimizer(optimizers.G)
    /\ pc' = "report_check"
    /\ UNCHANGED << pathExists, numImages, EPOCH_NUM, IMAGE_CHANNEL, dataset,
                    optimizers, viz_noise, epochIt, epoch, yielded, i, x_real,
                    real_label, fake_label, z_noise, x_fake, files, log >>

(***************************************************************************)
(* Periodic reporting and end-of-epoch checkpoints.                        *)
(***************************************************************************)
\* Faulty variant: the report is due on the last index of every interval
ReportDue_Shifted(k) == (k + 1) % ReportInterval = 0

\* line 150: if i % 100 == 0
ReportDue(k) == k % ReportInterval = 0

ReportCheck ==
    /\ pc = "report_check"
    /\ pc' = IF ReportDue(i) THEN "report_log" ELSE "batch_loop"
    /\ UNCHANGED << pathExists, numImages, EPOCH_NUM, IMAGE_CHANNEL, dataset,
                    netG, netD, optimizers, viz_noise, epochIt, epoch, yielded,
                    i, x_real, real_label, fake_label, z_noise, x_fake, files,
                    log >>

\* lines 151-156: print the three losses
ReportLog ==
    /\ pc = "report_log"
    /\ log' = Append(log, LogLine("losses", epoch, i))
    /\ pc' = "save_real"
    /\ UNCHANGED << pathExists, numImages, EPOCH_NUM, IMAGE_CHANNEL, dataset,
                    netG, netD, optimizers, viz_noise, epochIt, epoch, yielded,
                    i, x_real, real_label, fake_label, z_noise, x_fake, files >>

\* line 157
SaveRealSamples ==
    /\ pc = "save_real"
    /\ files' = WriteFile(files, RealSamplesFile,
                          [epoch |-> epoch, i |-> i, n |-> x_real])
    /\ pc' = "save_fake"
    /\ UNCHANGED << pathExists, numImages, EPOCH_NUM, IMAGE_CHANNEL, dataset,
                    netG, netD, optimizers, viz_noise, epochIt, epoch, yielded,
                    i, x_real, real_label, fake_label, z_noise, x_fake, log >>

\* the file a report of epoch e writes the Generator's samples to
FakeSamplesFile(e) == FileName("fake_samples", e)

\* lines 158-160: netG(viz_noise) under no_grad, saved as fake_samples_<epoch>
SaveFakeSamples ==
    /\ pc = "save_fake"
    /\ files' = WriteFile(files, FakeSamplesFile(epoch),
                          [epoch |-> epoch, i |-> i, n |-> viz_noise,
                           steps |-> netG.steps])
    /\ pc' = "batch_loop"
    /\ UNCHANGED << pathExists, numImages, EPOCH_NUM, IMAGE_CHANNEL, dataset,
                    netG, netD, optimizers, viz_noise, epochIt, epoch, yielded,
                    i, x_real, real_label, fake_label, z_noise, x_fake, log >>

\* Faulty variant: the checkpoint name carries no epoch index
NetGFile_Untagged(e) == FileName("netG", 0)

\* the file the Generator's checkpoint of epoch e goes to
NetGFile(e) == FileName("netG", e)

NetDFile(e) == FileName("netD", e)

\* Faulty variant: the Generator is checkpointed only after the last epoch
SaveNetG_OnlyFinal ==
    /\ pc = "save_G"
    /\ files' = IF epochIt = EPOCH_NUM
                THEN WriteFile(files, NetGFile(epoch), StateDict(netG))
                ELSE files
    /\ pc' = "save_D"
    /\ UNCHANGED << pathExists, numImages, EPOCH_NUM, IMAGE_CHANNEL, dataset,
                    netG, netD, optimizers, viz_noise, epochIt, epoch, yielded,
                    i, x_real, real_label, fake_label, z_noise, x_fake, log >>

\* line 161
SaveNetG ==
    /\ pc = "save_G"
    /\ files' = WriteFile(files, NetGFile(epoch), StateDict(netG))
    /\ pc' = "save_D"
    /\ UNCHANGED << pathExists, numImages, EPOCH_NUM, IMAGE_CHANNEL, dataset,
                    netG, netD, optimizers, viz_noise, epochIt, epoch, yielded,
                    i, x_real, real_label, fake_label, z_noise, x_fake, log >>

\* line 162
SaveNetD ==
    /\ pc = "save_D"
    /\ files' = WriteFile(files, NetDFile(epoch), StateDict(netD))
    /\ pc' = "epoch_loop"
    /\ UNCHANGED << pathExists, numImages, EPOCH_NUM, IMAGE_CHANNEL, dataset,
                    netG, netD, optimizers, viz_noise, epochIt, epoch, yielded,
                    i, x_real, real_label, fake_label, z_noise, x_fake, log >>

(***************************************************************************)
(* Errors.  The script has no try/except: an exception raised by any       *)
(* statement (data loading, forward, backward, optimizer step, image or    *)
(* checkpoint I/O) unwinds the whole script.                               *)
(***************************************************************************)
Running == pc \notin {"done", "crashed"}

\* where control goes when the statement at pc raises
OnError == "crashed"

Fail ==
    /\ Running
    /\ pc' = OnError
    /\ UNCHANGED << pathExists, numImages, EPOCH_NUM, IMAGE_CHANNEL, dataset,
                    netG, netD, optimizers, viz_noise, epochIt, epoch, yielded,
                    i, x_real, real_label, fake_label, z_noise, x_fake, files,
                    log >>

Next ==
    \/ LoadDataset
    \/ AssertDataset
    \/ ConstructG
    \/ ConstructD
    \/ Setup
    \/ EpochLoop
    \/ BatchLoop
    \/ CreateLabels
    \/ DZeroGrad
    \/ DRealStep
    \/ SampleNoise
    \/ GForward
    \/ DFakeStep
    \/ OptimizerDStep
    \/ GZeroGrad
    \/ GStep
    \/ OptimizerGStep
    \/ ReportCheck
    \/ ReportLog
    \/ SaveRealSamples
    \/ SaveFakeSamples
    \/ SaveNetG
    \/ SaveNetD
    \/ Fail

Spec == Init /\ [][Next]_vars

\* The interpreter keeps executing the script's single thread of control.
FairSpec == Spec /\ WF_vars(Next)

(***************************************************************************)
(* Positions of the batch body, and the number of batches fully processed. *)
(***************************************************************************)
BeforeDStep == {"labels", "D_zero_grad", "D_real", "z_noise", "G_forward",
                "D_fake", "optD_step"}

BeforeGStep == {"G_zero_grad", "G_step", "optG_step"}

AfterGStep == {"report_check", "report_log", "save_real", "save_fake"}

InBody == BeforeDStep \cup BeforeGStep \cup AfterGStep

CompletedBatches ==
    IF epochIt = 0
    THEN 0
    ELSE (epochIt - 1) * NumBatches + yielded - (IF pc \in InBody THEN 1 ELSE 0)

RealGrad == GradOf("loss_D_real", epoch, i)

FakeGrad == GradOf("loss_D_fake", epoch, i)

GenGrad == GradOf("loss_G", epoch, i)

(***************************************************************************)
(* C1: in every batch the Discriminator's parameters are updated exactly   *)
(* once (the number of Discriminator updates is the number of completed    *)
(* batches, plus one once the current batch has passed line 141), and an   *)
(* update is taken only at line 141, with the real-loss and the fake-loss  *)
(* gradient of the current batch both accumulated.                         *)
(***************************************************************************)
DStepsExpected ==
    CompletedBatches + (IF pc \in BeforeGStep \cup AfterGStep THEN 1 ELSE 0)

C1_DiscriminatorUpdatedOncePerBatch ==
    [][ /\ (pc' # "crashed" => netD'.steps = DStepsExpected')
        /\ (netD'.steps # netD.steps =>
               /\ pc = "optD_step"
               /\ netD'.steps = netD.steps + 1
               /\ BagIn(RealGrad, netD.grad)
               /\ BagIn(FakeGrad, netD.grad)) ]_vars

C1_Witness ==
    /\ pc = "G_zero_grad"
    /\ epoch = 1
    /\ i = 1
    /\ netD.steps = NumBatches + 2
    /\ BagIn(RealGrad, netD.applied)
    /\ BagIn(FakeGrad, netD.applied)

(***************************************************************************)
(* C2: in every batch the Generator's parameters are updated exactly once, *)
(* the gradient that update applies is exactly the loss_G gradient of that *)
(* batch, and no loss_D_fake (or loss_D_real) contribution is ever in the  *)
(* Generator's gradient buffer.                                            *)
(***************************************************************************)
GStepsExpected == CompletedBatches + (IF pc \in AfterGStep THEN 1 ELSE 0)

C2_GeneratorUpdatedOnlyByLossG ==
    [][ /\ (pc' # "crashed" => netG'.steps = GStepsExpected')
        /\ (\A g \in BagToSet(netG'.grad) : g.loss = "loss_G")
        /\ (netG'.steps # netG.steps =>
               /\ pc = "optG_step"
               /\ netG'.steps = netG.steps + 1
               /\ netG.grad = SetToBag({GenGrad})
               /\ netG'.applied = SetToBag({GenGrad})) ]_vars

C2_Witness ==
    /\ pc = "report_check"
    /\ epoch = 1
    /\ i = 1
    /\ netG.steps = NumBatches + 2
    /\ netG.applied = SetToBag({GenGrad})
    /\ BagIn(FakeGrad, netD.applied)

(***************************************************************************)
(* C3: once the labels of a batch are created, the real-label and the      *)
(* fake-label tensor have as many entries as the batch has images, also on *)
(* a short final batch; so has the latent batch once it is sampled.        *)
(***************************************************************************)
C3_LabelLengthMatchesBatch ==
    /\ (pc \in InBody =>
           /\ x_real = BatchLen(i)
           /\ x_real >= 1)
    /\ (pc \in InBody \ {"labels"} =>
           /\ real_label = TorchFull(BatchLen(i), REAL_LABEL)
           /\ fake_label = TorchFull(BatchLen(i), FAKE_LABEL))
    /\ (pc \in InBody \ {"labels", "D_zero_grad", "D_real", "z_noise"} =>
           z_noise = BatchLen(i))

C3_Witness ==
    /\ pc = "D_fake"
    /\ i >= 1
    /\ i = NumBatches - 1
    /\ x_real < BATCH_SIZE
    /\ real_label.n = x_real
    /\ fake_label.n = x_real
    /\ z_noise = x_real

(***************************************************************************)
(* C9: a network's parameters change only in its own optimizer step: the   *)
(* Generator's only at line 148, the Discriminator's only at line 141.     *)
(***************************************************************************)
C9_ParametersChangedOnlyByOwnOptimizer ==
    [][ /\ (StateDict(netG)' # StateDict(netG) => pc = "optG_step")
        /\ (StateDict(netD)' # StateDict(netD) => pc = "optD_step")
        /\ (pc = "optG_step" /\ pc' # "crashed" =>
               StateDict(netG)' # StateDict(netG))
        /\ (pc = "optD_step" /\ pc' # "crashed" =>
               StateDict(netD)' # StateDict(netD)) ]_vars

\* the Generator step has back-propagated through the Discriminator and
\* updated the Generator, and the Discriminator's parameters are those the
\* Discriminator step of this batch left
C9_Witness ==
    /\ pc = "save_fake"
    /\ i >= 1
    /\ BagIn(GenGrad, netD.grad)
    /\ netD.applied = SetToBag({RealGrad, FakeGrad})
    /\ netG.applied = SetToBag({GenGrad})

(***************************************************************************)
(* C10: the gradient a Discriminator update applies is exactly the         *)
(* real-loss gradient plus the fake-loss gradient of the current batch.    *)
(* The Generator step leaves its loss_G gradient in the Discriminator's    *)
(* buffer; it is still there when the next batch begins, and line 130      *)
(* clears it.                                                              *)
(***************************************************************************)
C10_DiscriminatorGradientIsRealPlusFake ==
    [][ /\ (netD'.steps # netD.steps =>
               /\ netD.grad = SetToBag({RealGrad}) (+) SetToBag({FakeGrad})
               /\ netD'.applied = netD.grad)
        /\ (pc' = "D_zero_grad" /\ CompletedBatches' >= 1 =>
               \E g \in BagToSet(netD'.grad) : g.loss = "loss_G")
        /\ (pc' = "D_real" => BagToSet(netD'.grad) = {})
        /\ (pc' \in {"z_noise", "G_forward", "D_fake"} =>
               netD'.grad = SetToBag({RealGrad'})) ]_vars

C10_Witness ==
    /\ pc = "G_zero_grad"
    /\ CompletedBatches >= 1
    /\ netD.steps >= 2
    /\ netD.applied = SetToBag({RealGrad, FakeGrad})

(***************************************************************************)
(* Files this run has written, by kind.                                    *)
(***************************************************************************)
Written(kind) == { f \in DOMAIN files : f[1] = kind }

\* number of epochs whose Generator / Discriminator checkpoint line has run
EpochsSavedG ==
    IF epochIt = 0 THEN 0
    ELSE IF pc \in {"save_D", "epoch_loop", "done"} THEN epochIt
    ELSE epochIt - 1

EpochsSavedD ==
    IF epochIt = 0 THEN 0
    ELSE IF pc \in {"epoch_loop", "done"} THEN epochIt
    ELSE epochIt - 1

\* the parameter state of each network when epoch e has run its last batch
ParamsAfterEpochG(e) ==
    [steps   |-> (e + 1) * NumBatches,
     applied |-> SetToBag({GradOf("loss_G", e, NumBatches - 1)})]

ParamsAfterEpochD(e) ==
    [steps   |-> (e + 1) * NumBatches,
     applied |-> SetToBag({GradOf("loss_D_real", e, NumBatches - 1),
                           GradOf("loss_D_fake", e, NumBatches - 1)})]

(***************************************************************************)
(* C4: the checkpoints written so far are exactly netG_e / netD_e for the  *)
(* epochs e whose batches have all been processed (none while an epoch is  *)
(* in its batch loop), each written once and holding the parameters as     *)
(* they are after the last batch of epoch e; a completed run of EPOCH_NUM  *)
(* epochs has written exactly the pairs 0..EPOCH_NUM-1.                    *)
(***************************************************************************)
C4_CheckpointPairPerEpoch ==
    pc # "crashed" =>
        /\ Written("netG") = { FileName("netG", e) : e \in 0..(EpochsSavedG - 1) }
        /\ Written("netD") = { FileName("netD", e) : e \in 0..(EpochsSavedD - 1) }
        /\ \A e \in 0..(EpochsSavedG - 1) :
              /\ files[FileName("netG", e)].writes = 1
              /\ files[FileName("netG", e)].content = ParamsAfterEpochG(e)
        /\ \A e \in 0..(EpochsSavedD - 1) :
              /\ files[FileName("netD", e)].writes = 1
              /\ files[FileName("netD", e)].content = ParamsAfterEpochD(e)
        /\ (pc = "done" => EpochsSavedG = EPOCH_NUM /\ EpochsSavedD = EPOCH_NUM)

C4_Witness ==
    /\ pc = "done"
    /\ EPOCH_NUM = 2
    /\ NumBatches >= 2
    /\ Written("netG") = { FileName("netG", 0), FileName("netG", 1) }
    /\ Written("netD") = { FileName("netD", 0), FileName("netD", 1) }

(***************************************************************************)
(* C5: without an error the script reaches its end; the loop is left only  *)
(* when range(EPOCH_NUM) is exhausted, every epoch leaves its batch loop   *)
(* only when the DataLoader is exhausted, and at the end both networks     *)
(* have been updated EPOCH_NUM * len(dataloader) times.                    *)
(***************************************************************************)
C5_RunsAllEpochsThenTerminates ==
    /\ <>(pc = "crashed" \/ pc = "done")
    /\ [](pc \in {"save_G", "save_D"} => yielded = NumBatches)
    /\ [](pc = "done" =>
             /\ epochIt = EPOCH_NUM
             /\ netD.steps = EPOCH_NUM * NumBatches
             /\ netG.steps = EPOCH_NUM * NumBatches)
    /\ [][pc' = "done" => pc = "epoch_loop"]_vars

C5_Witness ==
    /\ pc = "done"
    /\ EPOCH_NUM = 2
    /\ NumBatches > ReportInterval
    /\ netG.steps = 2 * NumBatches

(***************************************************************************)
(* Reports.                                                                *)
(***************************************************************************)
\* how many of the batch indices 0..m-1 are multiples of the interval
ReportsIn(m) == Cardinality({ k \in 0..(m - 1) : k % ReportInterval = 0 })

\* how many batches of epoch e have run their whole body
BatchesDone(e) ==
    IF e < epochIt - 1 \/ pc \in {"save_G", "save_D", "epoch_loop", "done"}
    THEN NumBatches
    ELSE IF pc \in InBody THEN yielded - 1 ELSE yielded

FakeWrites(e) ==
    IF FileName("fake_samples", e) \in DOMAIN files
    THEN files[FileName("fake_samples", e)].writes
    ELSE 0

RealWrites ==
    IF RealSamplesFile \in DOMAIN files THEN files[RealSamplesFile].writes ELSE 0

\* reports whose line 157 has run
ReportsStarted ==
    IF epochIt = 0 THEN 0
    ELSE (epochIt - 1) * ReportsIn(NumBatches)
         + ReportsIn(BatchesDone(epochIt - 1))
         + (IF pc = "save_fake" THEN 1 ELSE 0)

\* every started epoch that has run a batch has its fake_samples file
EveryEpochWritesFakeSamples ==
    \A e \in 0..(epochIt - 1) :
        BatchesDone(e) >= 1 => FileName("fake_samples", e) \in DOMAIN files

\* real_samples.png is one file, rewritten by every report
RealSamplesOverwritten ==
    /\ Written("real_samples") \subseteq {RealSamplesFile}
    /\ RealWrites = ReportsStarted

(***************************************************************************)
(* C6 as stated: every epoch that processes a batch writes its             *)
(* fake_samples file, a fake_samples file is written once and never        *)
(* overwritten, and real_samples.png is overwritten by every report.       *)
(***************************************************************************)
C6_Original_FakeSamplesNeverOverwritten ==
    pc # "crashed" =>
        /\ EveryEpochWritesFakeSamples
        /\ \A e \in 0..MaxEpochNum : FakeWrites(e) <= 1
        /\ RealSamplesOverwritten

(***************************************************************************)
(* C6 amended: every epoch that processes a batch writes its fake_samples  *)
(* file; the file of epoch e is written by the reports of epoch e alone,   *)
(* once per report (batch index 0, 100, 200, ...), so a later report of    *)
(* the same epoch overwrites it and no other epoch does; it holds the      *)
(* Generator's output as of the latest report of epoch e.  real_samples is *)
(* overwritten by every report.                                            *)
(***************************************************************************)
LatestReportIndex(m) == ((m - 1) \div ReportInterval) * ReportInterval

C6_FakeSamplesOverwrittenWithinEpochOnly ==
    pc # "crashed" =>
        /\ EveryEpochWritesFakeSamples
        /\ Written("fake_samples")
               \subseteq { FileName("fake_samples", e) : e \in 0..(epochIt - 1) }
        /\ \A e \in 0..(epochIt - 1) :
              /\ FakeWrites(e) = ReportsIn(BatchesDone(e))
              /\ FakeWrites(e) >= 1 =>
                    files[FileName("fake_samples", e)].content =
                        [epoch |-> e,
                         i     |-> LatestReportIndex(BatchesDone(e)),
                         n     |-> BATCH_SIZE,
                         steps |-> e * NumBatches
                                   + LatestReportIndex(BatchesDone(e)) + 1]
        /\ RealSamplesOverwritten

C6_Witness ==
    /\ pc = "batch_loop"
    /\ epoch = 1
    /\ FakeWrites(0) = 2
    /\ FakeWrites(1) = 1
    /\ RealWrites = 3

(***************************************************************************)
(* C7: once the dataset is selected, a missing IN_PATH means the MNIST     *)
(* fallback, the logged substitution and IMAGE_CHANNEL = 1, and an         *)
(* existing IN_PATH means the image folder, no such log line and the       *)
(* configured IMAGE_CHANNEL; a constructed network has that channel count. *)
(***************************************************************************)
FallbackLogged ==
    \E k \in 1..Len(log) : log[k].msg = "no data available, using MNIST"

C7_FallbackSetsChannelBeforeConstruction ==
    /\ (dataset = "none" =>
           /\ IMAGE_CHANNEL = ConfiguredImageChannel
           /\ netG.nc = 0
           /\ netD.nc = 0)
    /\ (dataset # "none" /\ pathExists =>
           /\ dataset = "ImageFolder"
           /\ ~FallbackLogged
           /\ IMAGE_CHANNEL = ConfiguredImageChannel)
    /\ (dataset # "none" /\ ~pathExists =>
           /\ dataset = "MNIST"
           /\ FallbackLogged
           /\ IMAGE_CHANNEL = MnistImageChannel)
    /\ (netG.nc # 0 => netG.nc = IF pathExists THEN ConfiguredImageChannel ELSE 1)
    /\ (netD.nc # 0 => netD.nc = IF pathExists THEN ConfiguredImageChannel ELSE 1)
    /\ (pc \notin {"load_dataset", "assert_dataset", "construct_G", "crashed"} =>
           netG.nc # 0)
    /\ (pc \notin {"load_dataset", "assert_dataset", "construct_G",
                   "construct_D", "crashed"} => netD.nc # 0)

C7_Witness ==
    /\ pc = "setup"
    /\ ~pathExists
    /\ dataset = "MNIST"
    /\ FallbackLogged
    /\ netG.nc = 1
    /\ netD.nc = 1

(***************************************************************************)
(* C8: after an error nothing more happens (no step is run again), and     *)
(* when an error ends the run during epoch e, netG and netD of every       *)
(* epoch before e are on disk, written once, holding the parameters as of  *)
(* the end of that epoch.                                                  *)
(***************************************************************************)
C8_ErrorStopsRunEarlierCheckpointsKept ==
    [][ /\ pc # "crashed"
        /\ (pc' = "crashed" /\ epochIt >= 1 =>
               \A e \in 0..(epoch - 1) :
                  /\ FileName("netG", e) \in DOMAIN files'
                  /\ FileName("netD", e) \in DOMAIN files'
                  /\ files'[FileName("netG", e)] =
                         [writes |-> 1, content |-> ParamsAfterEpochG(e)]
                  /\ files'[FileName("netD", e)] =
                         [writes |-> 1, content |-> ParamsAfterEpochD(e)]) ]_vars

C8_Witness ==
    /\ pc = "crashed"
    /\ epoch = 1
    /\ yielded >= 1
    /\ FileName("netG", 0) \in DOMAIN files
    /\ FileName("netD", 0) \in DOMAIN files
    /\ FileName("netG", 1) \notin DOMAIN files

====
